---- MODULE Spec2Model ----
(***************************************************************************)
(* Model of SyntaxTreeProvider (Source/commands/syntaxTree.ts): the cache  *)
(* of syntax trees keyed by document uri, the lifecycle handlers that      *)
(* invalidate it, and provideTextDocumentContent with its one suspension   *)
(* point, the syntaxTreeRequest sent to the language server.               *)
(***************************************************************************)
EXTENDS Integers, Sequences, FiniteSets, TLC

\* ------------------------------------------------------------------ bounds
NumDocs == 2      \* source documents "file://..." the editor knows
MaxPending == 2   \* syntaxTreeRequest messages in flight at one time

\* ------------------------------------------------------------- vocabulary
Docs == 1..NumDocs
NoEditor == 0                      \* session.editor === undefined
NoDocument == 0                    \* doc === undefined in onDidCloseTextDocument
Uri == "biome:syntax_tree/tree.rast"
\* the text of the syntax tree of document d; old says that the server computed
\* it on content that d no longer has when the text is delivered
Tree(d, old) == [doc |-> d, outdated |-> old]
NoText == Tree(NoDocument, FALSE)  \* undefined: no text
SyntaxTreeDocument(uri, result) == [uri |-> uri, value |-> result]

VARIABLES
    editor,      \* session.editor: the document of the active editor, or NoEditor
    documents,   \* the Map<FilePath, SyntaxTreeDocument>, a function on its keys
    requests,    \* syntaxTreeRequest messages sent and not yet answered
    cancelled,   \* tokens whose cancellation has been requested
    step,        \* what the latest step did: its result and its fire() calls
    effects,     \* the calls the latest step made on the map and the emitter, in order
    edited,      \* history: pending requests whose document was edited since they were sent
    invalidated, \* history: pending requests whose document was invalidated since they were sent
    writer,      \* history: for each cache entry, the request whose continuation wrote it
    stale,       \* history: documents changed or closed and not requested since
    disposed     \* history: documents that were cached when dispose() ran

pvars == <<editor, documents, requests, cancelled, step, effects>>
hvars == <<invalidated, writer, stale, disposed>>
gvars == <<edited, invalidated, writer, stale, disposed>>
vars == <<editor, documents, requests, cancelled, step, effects, edited, invalidated, writer, stale, disposed>>

\* ---------------------------------------------------------- Map operations
MapHas(m, k) == k \in DOMAIN m
MapDelete(m, k) == [x \in DOMAIN m \ {k} |-> m[x]]
MapSet(m, k, v) == [x \in DOMAIN m \cup {k} |-> IF x = k THEN v ELSE m[x]]
MapClear(m) == [x \in {} |-> m[x]]

\* the observable part of one step: the operation, what it returned to the
\* caller of provideTextDocumentContent (at once or when the promise settled),
\* and the number of eventEmitter.fire(this.uri) calls it made
Step(op, out, val, n) == [op |-> op, outcome |-> out, value |-> val, fires |-> n]
Silent == Step("other", "none", NoText, 0)   \* nothing returned, nothing fired
Fired == Step("other", "none", NoText, 1)    \* this.eventEmitter.fire(this.uri), once

\* the calls a step makes on this.documents and this.eventEmitter
MapDeleteCall(m, k) == [call |-> "delete", key |-> k, had |-> MapHas(m, k)]
MapSetCall(m, k) == [call |-> "set", key |-> k, had |-> MapHas(m, k)]
MapClearCall == [call |-> "clear", key |-> NoDocument, had |-> FALSE]
FireCall(uri) == [call |-> "fire", uri |-> uri]

Ids == {r.id : r \in requests}

\* the ids of the pending requests on the documents ds
RequestsOn(ds) == {r.id : r \in {q \in requests : q.uri \in ds}}

\* the id of the next request: the smallest one not in flight
FreeId == CHOOSE i \in 1..(MaxPending + 1) : i \notin Ids /\ \A j \in 1..(i - 1) : j \in Ids

Init ==
    /\ editor = NoEditor
    /\ documents = [x \in {} |-> SyntaxTreeDocument(Uri, NoText)]
    /\ requests = {}
    /\ cancelled = {}
    /\ edited = {}
    /\ step = Silent
    /\ effects = <<>>
    /\ invalidated = {}
    /\ writer = [x \in {} |-> [uri |-> NoDocument, invalidated |-> FALSE]]
    /\ stale = {}
    /\ disposed = {}

\* ------------------------------------------------------------ environment
\* the session points session.editor at another editor, or at none
SetEditor(e) ==
    /\ e # editor
    /\ editor' = e
    /\ step' = Silent
    /\ effects' = <<>>
    /\ UNCHANGED <<documents, requests, cancelled>>

\* the tokens, had every call been given the token of one shared source
CancelToken_Shared(r) ==
    /\ r \in requests
    /\ r.token \notin cancelled
    /\ cancelled' = cancelled \cup {q.token : q \in requests}
    /\ step' = Silent
    /\ effects' = <<>>
    /\ UNCHANGED <<editor, documents, requests>>

\* the caller signals the cancellation token it passed with request r
CancelToken(r) ==
    /\ r \in requests
    /\ r.token \notin cancelled
    /\ cancelled' = cancelled \cup {r.token}
    /\ step' = Silent
    /\ effects' = <<>>
    /\ UNCHANGED <<editor, documents, requests>>

\* ------------------------------------------------------ lifecycle handlers
\* onDidChangeTextDocument, had it cleared the map instead of deleting one key
onDidChangeTextDocument_ClearsAll(d) ==
    /\ documents' = MapClear(documents)
    /\ step' = Fired
    /\ effects' = <<MapClearCall, FireCall(Uri)>>
    /\ UNCHANGED <<editor, requests, cancelled>>

\* document d was edited
onDidChangeTextDocument(d) ==
    /\ documents' = MapDelete(documents, d)
    /\ step' = Fired
    /\ effects' = <<MapDeleteCall(documents, d), FireCall(Uri)>>
    /\ UNCHANGED <<editor, requests, cancelled>>

\* onDidCloseTextDocument, had it fired only when delete() found an entry
onDidCloseTextDocument_FiresIfDeleted(doc) ==
    IF doc # NoDocument /\ MapHas(documents, doc)
    THEN /\ documents' = MapDelete(documents, doc)
         /\ step' = Fired
         /\ effects' = <<MapDeleteCall(documents, doc), FireCall(Uri)>>
         /\ UNCHANGED <<editor, requests, cancelled>>
    ELSE /\ step' = Silent
         /\ effects' = <<>>
         /\ UNCHANGED <<editor, documents, requests, cancelled>>

onDidCloseTextDocument(doc) ==
    IF doc # NoDocument
    THEN /\ documents' = MapDelete(documents, doc)
         /\ step' = Fired
         /\ effects' = <<MapDeleteCall(documents, doc), FireCall(Uri)>>
         /\ UNCHANGED <<editor, requests, cancelled>>
    ELSE /\ step' = Silent
         /\ effects' = <<>>
         /\ UNCHANGED <<editor, documents, requests, cancelled>>

dispose ==
    /\ documents' = MapClear(documents)
    /\ step' = Silent
    /\ effects' = <<MapClearCall>>
    /\ UNCHANGED <<editor, requests, cancelled>>

\* onDidChangeActiveTextEditor, had it not asked isBiomeEditor
onDidChangeActiveTextEditor_NoClassifier(e, isBiomeEditor) ==
    IF e # NoEditor
    THEN /\ step' = Fired
         /\ effects' = <<FireCall(Uri)>>
         /\ UNCHANGED <<editor, documents, requests, cancelled>>
    ELSE /\ step' = Silent
         /\ effects' = <<>>
         /\ UNCHANGED <<editor, documents, requests, cancelled>>

\* onDidChangeActiveTextEditor, had it dropped the entry of the editor that
\* gained the focus
onDidChangeActiveTextEditor_Invalidates(e, isBiomeEditor) ==
    IF e # NoEditor /\ isBiomeEditor
    THEN /\ documents' = MapDelete(documents, e)
         /\ step' = Fired
         /\ effects' = <<MapDeleteCall(documents, e), FireCall(Uri)>>
         /\ UNCHANGED <<editor, requests, cancelled>>
    ELSE /\ step' = Silent
         /\ effects' = <<>>
         /\ UNCHANGED <<editor, documents, requests, cancelled>>

\* the active editor changed to e (or to none); isBiomeEditor is the answer of
\* the classifier for e
onDidChangeActiveTextEditor(e, isBiomeEditor) ==
    IF e # NoEditor /\ isBiomeEditor
    THEN /\ step' = Fired
         /\ effects' = <<FireCall(Uri)>>
         /\ UNCHANGED <<editor, documents, requests, cancelled>>
    ELSE /\ step' = Silent
         /\ effects' = <<>>
         /\ UNCHANGED <<editor, documents, requests, cancelled>>

\* get onDidChange: hands out the event of the emitter
onDidChange ==
    /\ step' = Step("onDidChange", "event", NoText, 0)
    /\ effects' = <<>>
    /\ UNCHANGED <<editor, documents, requests, cancelled>>

\* provideDocumentLinks(document): no links for a cached document, else undefined
provideDocumentLinks(document) ==
    /\ step' = Step("links", IF MapHas(documents, document) THEN "empty" ELSE "absent", NoText, 0)
    /\ effects' = <<>>
    /\ UNCHANGED <<editor, documents, requests, cancelled>>

\* the command syntaxTree returns: once the view document is open, it fires
syntaxTree ==
    /\ step' = Fired
    /\ effects' = <<FireCall(Uri)>>
    /\ UNCHANGED <<editor, documents, requests, cancelled>>

\* ------------------------------------------- provideTextDocumentContent
\* the message sendRequest(syntaxTreeRequest, params, token) puts on the wire
SendRequest(id, uri, documentUri, token) ==
    [id |-> id, view |-> uri, uri |-> documentUri, token |-> token]

\* provideTextDocumentContent, had it not looked the document up in the cache
provideTextDocumentContent_NoLookup(uri, token) ==
    IF editor = NoEditor
    THEN /\ step' = Step("provide", "absent", NoText, 0)
         /\ effects' = <<>>
         /\ UNCHANGED <<editor, documents, requests, cancelled>>
    ELSE /\ Cardinality(requests) < MaxPending
         /\ LET params == SendRequest(FreeId, uri, editor, token)
            IN /\ requests' = requests \cup {params}
               /\ step' = Step("provide", "pending", NoText, 0)
               /\ effects' = <<>>
         /\ UNCHANGED <<editor, documents, cancelled>>

\* provideTextDocumentContent, had it not tested session.editor: reading the
\* document of an undefined editor throws
provideTextDocumentContent_NoGuard(uri, token) ==
    IF editor = NoEditor
    THEN /\ step' = Step("provide", "failed", NoText, 0)
         /\ effects' = <<>>
         /\ UNCHANGED <<editor, documents, requests, cancelled>>
    ELSE IF MapHas(documents, editor)
    THEN /\ step' = Step("provide", "content", documents[editor].value, 0)
         /\ effects' = <<>>
         /\ UNCHANGED <<editor, documents, requests, cancelled>>
    ELSE /\ Cardinality(requests) < MaxPending
         /\ LET params == SendRequest(FreeId, uri, editor, token)
            IN /\ requests' = requests \cup {params}
               /\ step' = Step("provide", "pending", NoText, 0)
               /\ effects' = <<>>
         /\ UNCHANGED <<editor, documents, cancelled>>

\* provideTextDocumentContent, had a miss joined a request already in flight
\* for the same document
provideTextDocumentContent_Joins(uri, token) ==
    IF editor = NoEditor
    THEN /\ step' = Step("provide", "absent", NoText, 0)
         /\ effects' = <<>>
         /\ UNCHANGED <<editor, documents, requests, cancelled>>
    ELSE IF MapHas(documents, editor)
    THEN /\ step' = Step("provide", "content", documents[editor].value, 0)
         /\ effects' = <<>>
         /\ UNCHANGED <<editor, documents, requests, cancelled>>
    ELSE IF RequestsOn({editor}) # {}
    THEN /\ step' = Step("provide", "pending", NoText, 0)
         /\ effects' = <<>>
         /\ UNCHANGED <<editor, documents, requests, cancelled>>
    ELSE /\ Cardinality(requests) < MaxPending
         /\ LET params == SendRequest(FreeId, uri, editor, token)
            IN /\ requests' = requests \cup {params}
               /\ step' = Step("provide", "pending", NoText, 0)
               /\ effects' = <<>>
         /\ UNCHANGED <<editor, documents, cancelled>>

\* provideTextDocumentContent, had a hit removed the entry it returned
provideTextDocumentContent_ConsumesEntry(uri, token) ==
    IF editor = NoEditor
    THEN /\ step' = Step("provide", "absent", NoText, 0)
         /\ effects' = <<>>
         /\ UNCHANGED <<editor, documents, requests, cancelled>>
    ELSE IF MapHas(documents, editor)
    THEN /\ step' = Step("provide", "content", documents[editor].value, 0)
         /\ documents' = MapDelete(documents, editor)
         /\ effects' = <<MapDeleteCall(documents, editor)>>
         /\ UNCHANGED <<editor, requests, cancelled>>
    ELSE /\ Cardinality(requests) < MaxPending
         /\ LET params == SendRequest(FreeId, uri, editor, token)
            IN /\ requests' = requests \cup {params}
               /\ step' = Step("provide", "pending", NoText, 0)
               /\ effects' = <<>>
         /\ UNCHANGED <<editor, documents, cancelled>>

\* provideTextDocumentContent(uri, token), token being the caller's fresh token
provideTextDocumentContent(uri, token) ==
    IF editor = NoEditor
    THEN /\ step' = Step("provide", "absent", NoText, 0)
         /\ effects' = <<>>
         /\ UNCHANGED <<editor, documents, requests, cancelled>>
    ELSE IF MapHas(documents, editor)
    THEN /\ step' = Step("provide", "content", documents[editor].value, 0)
         /\ effects' = <<>>
         /\ UNCHANGED <<editor, documents, requests, cancelled>>
    ELSE /\ Cardinality(requests) < MaxPending
         /\ LET params == SendRequest(FreeId, uri, editor, token)
            IN /\ requests' = requests \cup {params}
               /\ step' = Step("provide", "pending", NoText, 0)
               /\ effects' = <<>>
         /\ UNCHANGED <<editor, documents, cancelled>>

\* ------------------------------------- the server answers a request
\* the request leaves the wire together with its token
\* a settlement that left the request pending
Answered_StaysPending(r) ==
    /\ r \in requests
    /\ requests' = requests
    /\ cancelled' = cancelled

\* the request r is settled and leaves the pending set, its token with it
Answered(r) ==
    /\ r \in requests
    /\ requests' = requests \ {r}
    /\ cancelled' = cancelled \ {r.token}

\* the continuation, had it read the key from session.editor when it ran
FetchSuccess_KeyAtCompletion(r, old) ==
    /\ Answered(r)
    /\ old => r.id \in edited
    /\ LET document == SyntaxTreeDocument(r.view, Tree(r.uri, old))
           documentUri == IF editor = NoEditor THEN r.uri ELSE editor
       IN /\ documents' = MapSet(documents, documentUri, document)
          /\ step' = Step("settle", "content", document.value, 0)
          /\ effects' = <<MapSetCall(documents, documentUri)>>
    /\ UNCHANGED editor

\* the continuation, had it kept an entry that was already there
FetchSuccess_KeepsFirst(r, old) ==
    /\ Answered(r)
    /\ old => r.id \in edited
    /\ LET document == SyntaxTreeDocument(r.view, Tree(r.uri, old))
       IN /\ documents' = IF MapHas(documents, r.uri) THEN documents
                          ELSE MapSet(documents, r.uri, document)
          /\ step' = Step("settle", "content", document.value, 0)
          /\ effects' = IF MapHas(documents, r.uri) THEN <<>>
                        ELSE <<MapSetCall(documents, r.uri)>>
    /\ UNCHANGED editor

\* the continuation, had it fired the notifier after storing the result
FetchSuccess_Fires(r, old) ==
    /\ Answered(r)
    /\ old => r.id \in edited
    /\ LET document == SyntaxTreeDocument(r.view, Tree(r.uri, old))
       IN /\ documents' = MapSet(documents, r.uri, document)
          /\ step' = Step("settle", "content", document.value, 1)
          /\ effects' = <<MapSetCall(documents, r.uri), FireCall(Uri)>>
    /\ UNCHANGED editor

\* the .then continuation: the server answered r with the tree it computed,
\* on the content the document had when r was sent or on a later one
FetchSuccess(r, old) ==
    /\ Answered(r)
    /\ old => r.id \in edited
    /\ LET document == SyntaxTreeDocument(r.view, Tree(r.uri, old))
       IN /\ documents' = MapSet(documents, r.uri, document)
          /\ step' = Step("settle", "content", document.value, 0)
          /\ effects' = <<MapSetCall(documents, r.uri)>>
    /\ UNCHANGED editor

\* a cancellation handler that evicted the entry of the request's document
FetchCancelled_Evicts(r) ==
    /\ Answered(r)
    /\ r.token \in cancelled
    /\ documents' = MapDelete(documents, r.uri)
    /\ step' = Step("settle", "cancelled", NoText, 0)
    /\ effects' = <<MapDeleteCall(documents, r.uri)>>
    /\ UNCHANGED editor

\* the request is rejected as cancelled: its token was signalled
FetchCancelled(r) ==
    /\ Answered(r)
    /\ r.token \in cancelled
    /\ step' = Step("settle", "cancelled", NoText, 0)
    /\ effects' = <<>>
    /\ UNCHANGED <<editor, documents>>

\* an error handler that cached an empty document and resolved with it
FetchFailed_CachesEmpty(r) ==
    /\ Answered(r)
    /\ documents' = MapSet(documents, r.uri, SyntaxTreeDocument(r.view, NoText))
    /\ step' = Step("settle", "failed", NoText, 0)
    /\ effects' = <<MapSetCall(documents, r.uri)>>
    /\ UNCHANGED editor

\* the server rejects the request with an error
FetchFailed(r) ==
    /\ Answered(r)
    /\ step' = Step("settle", "failed", NoText, 0)
    /\ effects' = <<>>
    /\ UNCHANGED <<editor, documents>>

\* ------------------------------------------------------ the program
Next ==
    \/ \E e \in Docs \cup {NoEditor} : SetEditor(e) /\ UNCHANGED gvars
    \/ \E r \in requests : CancelToken(r) /\ UNCHANGED gvars
    \/ \E d \in Docs : onDidChangeTextDocument(d) /\ UNCHANGED gvars
    \/ \E d \in Docs \cup {NoDocument} : onDidCloseTextDocument(d) /\ UNCHANGED gvars
    \/ dispose /\ UNCHANGED gvars
    \/ provideTextDocumentContent(Uri, FreeId) /\ UNCHANGED gvars
    \/ \E r \in requests : \E old \in BOOLEAN : FetchSuccess(r, old) /\ UNCHANGED gvars
    \/ \E r \in requests : FetchCancelled(r) /\ UNCHANGED gvars
    \/ \E r \in requests : FetchFailed(r) /\ UNCHANGED gvars
    \/ \E e \in Docs \cup {NoEditor} : \E b \in BOOLEAN :
          onDidChangeActiveTextEditor(e, b) /\ UNCHANGED gvars
    \/ onDidChange /\ UNCHANGED gvars
    \/ \E d \in Docs : provideDocumentLinks(d) /\ UNCHANGED gvars
    \/ syntaxTree /\ UNCHANGED gvars

Spec == Init /\ [][Next]_vars

\* ------------------------------- the program with a server that settles
\* the promise of the pending request with id i is settled: resolved by the
\* .then continuation, or rejected for a cancellation or a failure
Settle(i) ==
    \E r \in requests :
       /\ r.id = i
       /\ \/ \E old \in BOOLEAN : FetchSuccess(r, old)
          \/ FetchCancelled(r)
          \/ FetchFailed(r)
       /\ UNCHANGED gvars

\* every request that stays pending is eventually settled by the server
SpecLive == Init /\ [][Next]_vars /\ \A i \in 1..MaxPending : WF_vars(Settle(i))

\* ---------------------------------- the program with the age of its texts
\* an edit of d leaves every pending request on d behind; an answered request
\* is forgotten
EChange(d) == edited' = edited \cup RequestsOn({d})
EAnswered(r) == edited' = edited \ {r.id}

NextEdit ==
    \/ \E e \in Docs \cup {NoEditor} : SetEditor(e) /\ UNCHANGED gvars
    \/ \E r \in requests : CancelToken(r) /\ UNCHANGED gvars
    \/ \E d \in Docs : onDidChangeTextDocument(d) /\ EChange(d) /\ UNCHANGED hvars
    \/ \E d \in Docs \cup {NoDocument} : onDidCloseTextDocument(d) /\ UNCHANGED gvars
    \/ dispose /\ UNCHANGED gvars
    \/ provideTextDocumentContent(Uri, FreeId) /\ UNCHANGED gvars
    \/ \E r \in requests : \E old \in BOOLEAN :
          FetchSuccess(r, old) /\ EAnswered(r) /\ UNCHANGED hvars
    \/ \E r \in requests : FetchCancelled(r) /\ EAnswered(r) /\ UNCHANGED hvars
    \/ \E r \in requests : FetchFailed(r) /\ EAnswered(r) /\ UNCHANGED hvars
    \/ \E e \in Docs \cup {NoEditor} : \E b \in BOOLEAN :
          onDidChangeActiveTextEditor(e, b) /\ UNCHANGED gvars
    \/ onDidChange /\ UNCHANGED gvars
    \/ \E d \in Docs : provideDocumentLinks(d) /\ UNCHANGED gvars
    \/ syntaxTree /\ UNCHANGED gvars

SpecEdit == Init /\ [][NextEdit]_vars

\* ------------------------------------------- the program with its history
\* what the history variables record of each step
HInvalidate(ds) ==
    /\ invalidated' = invalidated \cup RequestsOn(ds)
    /\ writer' = [x \in DOMAIN writer \ ds |-> writer[x]]

HChange(d) ==
    /\ HInvalidate({d})
    /\ stale' = stale \cup {d}
    /\ UNCHANGED disposed

HClose(doc) ==
    IF doc # NoDocument THEN HChange(doc) ELSE UNCHANGED hvars

HDispose ==
    /\ HInvalidate(Docs)
    /\ disposed' = disposed \cup DOMAIN documents
    /\ UNCHANGED stale

HProvide ==
    /\ stale' = stale \ {editor}
    /\ UNCHANGED <<invalidated, writer, disposed>>

HSuccess(r) ==
    /\ invalidated' = invalidated \ {r.id}
    /\ writer' = MapSet(writer, r.uri, [uri |-> r.uri, invalidated |-> r.id \in invalidated])
    /\ UNCHANGED <<stale, disposed>>

HRejected(r) ==
    /\ invalidated' = invalidated \ {r.id}
    /\ UNCHANGED <<writer, stale, disposed>>

NextHist ==
    \/ \E e \in Docs \cup {NoEditor} : SetEditor(e) /\ UNCHANGED gvars
    \/ \E r \in requests : CancelToken(r) /\ UNCHANGED gvars
    \/ \E d \in Docs : onDidChangeTextDocument(d) /\ HChange(d) /\ EChange(d)
    \/ \E d \in Docs \cup {NoDocument} : onDidCloseTextDocument(d) /\ HClose(d) /\ UNCHANGED edited
    \/ dispose /\ HDispose /\ UNCHANGED edited
    \/ provideTextDocumentContent(Uri, FreeId) /\ HProvide /\ UNCHANGED edited
    \/ \E r \in requests : \E old \in BOOLEAN : FetchSuccess(r, old) /\ HSuccess(r) /\ EAnswered(r)
    \/ \E r \in requests : FetchCancelled(r) /\ HRejected(r) /\ EAnswered(r)
    \/ \E r \in requests : FetchFailed(r) /\ HRejected(r) /\ EAnswered(r)
    \/ \E e \in Docs \cup {NoEditor} : \E b \in BOOLEAN :
          onDidChangeActiveTextEditor(e, b) /\ UNCHANGED gvars
    \/ onDidChange /\ UNCHANGED gvars
    \/ \E d \in Docs : provideDocumentLinks(d) /\ UNCHANGED gvars
    \/ syntaxTree /\ UNCHANGED gvars

SpecHist == Init /\ [][NextHist]_vars

\* ------------------------------------------------------------ properties
\* the requests a step put on the wire, and the ones it took off
Sent == requests' \ requests
Settled == requests \ requests'
\* the step is a call of provideTextDocumentContent, or the settling of its promise
Provided == step' # step /\ step'.op = "provide"
Settles(out) == Settled # {} /\ step'.op = "settle" /\ step'.outcome = out
\* document d has the same cache entry, or none, before and after the step
SameEntry(d) ==
    /\ MapHas(documents', d) <=> MapHas(documents, d)
    /\ MapHas(documents, d) => documents'[d] = documents[d]

\* C1: a call made while the active document D has a cache entry returns the
\* cached text of D and sends no request to the server.
C1_CacheReuse ==
    [][(Provided /\ editor # NoEditor /\ MapHas(documents, editor))
        => /\ step'.outcome = "content"
           /\ step'.value = documents[editor].value
           /\ Sent = {}
           /\ requests' = requests]_vars

C1_Witness ==
    /\ step.op = "provide" /\ step.outcome = "content"
    /\ editor # NoEditor /\ MapHas(documents, editor)
    /\ step.value = documents[editor].value
    /\ requests # {}

\* C3: a document-changed or document-closed event on D1 leaves the cache
\* entry of every other identity D2 as it was.
C3_ScopedInvalidation ==
    [][\A d1 \in Docs :
          (onDidChangeTextDocument(d1) \/ onDidCloseTextDocument(d1))
          => \A d2 \in Docs \ {d1} : SameEntry(d2)]_vars

C3_Witness ==
    /\ step = Fired
    /\ Len(effects) = 2 /\ effects[1].call = "delete" /\ effects[1].had
    /\ \E d2 \in Docs : d2 # effects[1].key /\ MapHas(documents, d2)

\* C4 as stated: when a fetch for D settles as cancelled, the cache has no
\* entry for D afterwards and the notifier is not fired.
C4_Original ==
    [][Settles("cancelled") => /\ \A r \in Settled : ~MapHas(documents', r.uri)
                               /\ step'.fires = 0]_vars

\* C4 as amended: when a fetch for D settles as cancelled, the cache is the same
\* after as before (so D has an entry afterwards only if another fetch for D had
\* stored one), no request is sent again and the notifier is not fired.
C4_CancelWritesNothing ==
    [][Settles("cancelled") => /\ documents' = documents
                               /\ Sent = {}
                               /\ step'.fires = 0]_vars

C4_Witness ==
    /\ step.op = "settle" /\ step.outcome = "cancelled"
    /\ DOMAIN documents # {}
    /\ requests # {}

\* C6: when the server fails a request, the call settles as failed, no request
\* is sent again, and the cache is the same after as before.
C6_FailureWritesNothing ==
    [][\A r \in requests :
          FetchFailed(r) => /\ step'.op = "settle" /\ step'.outcome = "failed"
                            /\ documents' = documents
                            /\ requests' = requests \ {r}
                            /\ step'.fires = 0]_vars

C6_Witness ==
    /\ step.op = "settle" /\ step.outcome = "failed"
    /\ DOMAIN documents # {}

\* C7: a call that starts after an edit of D never returns text computed on
\* the content D had before that edit.  A call that returns at once started
\* after every edit so far.
C7_NoStaleRead ==
    (step.op = "provide" /\ step.outcome = "content") => ~step.value.outdated

\* C9: on a miss for the active document D the call sends exactly one request, with
\* D's identity and the caller's token; when a request for D succeeds with text T,
\* the cache holds D -> T and the call resolves with T.
C9_MissFetchesAndStores ==
    [][/\ (Provided /\ editor # NoEditor /\ ~MapHas(documents, editor))
          => /\ Cardinality(Sent) = 1
             /\ \A q \in Sent : q.uri = editor /\ q.token = FreeId /\ q.view = Uri
             /\ Settled = {}
             /\ step'.outcome = "pending"
       /\ \A r \in requests : \A old \in BOOLEAN :
             FetchSuccess(r, old)
             => /\ MapHas(documents', r.uri)
                /\ documents'[r.uri].value = Tree(r.uri, old)
                /\ step'.outcome = "content"
                /\ step'.value = Tree(r.uri, old)
                /\ Sent = {}]_vars

C9_Witness ==
    /\ step.op = "settle" /\ step.outcome = "content"
    /\ MapHas(documents, step.value.doc)
    /\ documents[step.value.doc].value = step.value
    /\ editor # step.value.doc

\* C10: a call made while there is no active document resolves with absent,
\* sends no request, fires nothing and leaves the cache as it was.
C10_NoEditorAbsent ==
    [][(Provided /\ editor = NoEditor)
        => /\ step'.outcome = "absent"
           /\ step'.value = NoText
           /\ requests' = requests
           /\ documents' = documents
           /\ step'.fires = 0]_vars

C10_Witness ==
    /\ step.op = "provide" /\ step.outcome = "absent"
    /\ editor = NoEditor
    /\ DOMAIN documents # {}

\* ---------------------------------------- properties over the history
\* C2: after a document-changed or document-closed event on D the cache has no
\* entry for D, and the next call with D as the active document sends exactly
\* one request, for D.
C2_InvalidationThenOneFetch ==
    [][\A d \in Docs :
          /\ (onDidChangeTextDocument(d) \/ onDidCloseTextDocument(d))
                => ~MapHas(documents', d)
          /\ (Provided /\ editor = d /\ d \in stale)
                => Cardinality(Sent) = 1 /\ \A q \in Sent : q.uri = d]_vars

\* C5: once dispose() has run, no identity that was cached when it ran has a
\* cache entry, in any later state.
C5_DisposedStayAbsent == \A d \in disposed : ~MapHas(documents, d)

\* C8: every cache entry of D was written by a request for D that succeeded, and
\* D was not invalidated (change, close, dispose) since that request was sent.
C8_CacheInvariant ==
    \A d \in DOMAIN documents :
        /\ d \in DOMAIN writer
        /\ writer[d].uri = d
        /\ documents[d].value.doc = d
        /\ ~writer[d].invalidated

\* ------------------------------------- properties of the later handlers
\* C11: an active-editor-changed event leaves the cache as it was, and fires the
\* emitter once when the editor is there and isBiomeEditor accepts it, and not
\* at all otherwise.
C11_ActiveEditorFiresIfBiome ==
    [][\A e \in Docs \cup {NoEditor} : \A b \in BOOLEAN :
          onDidChangeActiveTextEditor(e, b)
          => /\ documents' = documents
             /\ effects' = (IF e # NoEditor /\ b THEN <<FireCall(Uri)>> ELSE <<>>)
             /\ step'.fires = Len(effects')]_vars

C11_Witness ==
    /\ step = Fired
    /\ effects = <<FireCall(Uri)>>
    /\ DOMAIN documents = Docs

\* C12: signalling the token of one pending request, and the rejection that
\* follows, take only that request off the wire: every other pending request
\* stays pending with its token as it was and can still succeed, and the cache
\* is left as it was.
C12_CancelOnlyThatRequest ==
    /\ [](\A q \in requests : ENABLED FetchSuccess(q, FALSE))
    /\ [][\A r \in requests :
            (CancelToken(r) \/ FetchCancelled(r))
            => /\ \A q \in requests \ {r} :
                    /\ q \in requests'
                    /\ (q.token \in cancelled') <=> (q.token \in cancelled)
               /\ requests' \subseteq requests
               /\ documents' = documents]_vars

C12_Witness ==
    /\ step.op = "settle" /\ step.outcome = "cancelled"
    /\ \E q \in requests : \E d \in DOMAIN documents : q.token \notin cancelled /\ d # q.uri

\* C14: a document-changed event, and a document-closed event with a document,
\* call delete for that document and then fire, once, with the uri of the view,
\* whether or not delete found an entry; a document-closed event without a
\* document calls nothing and changes nothing.
C14_InvalidateThenFireOnce ==
    [][/\ \A d \in Docs :
            (onDidChangeTextDocument(d) \/ onDidCloseTextDocument(d))
            => /\ effects' = <<MapDeleteCall(documents, d), FireCall(Uri)>>
               /\ step'.fires = 1
               /\ ~MapHas(documents', d)
       /\ onDidCloseTextDocument(NoDocument)
            => /\ effects' = <<>>
               /\ step'.fires = 0
               /\ documents' = documents
               /\ requests' = requests /\ cancelled' = cancelled /\ editor' = editor]_vars

C14_Witness ==
    /\ Len(effects) = 2
    /\ effects[1].call = "delete" /\ ~effects[1].had
    /\ effects[2] = FireCall(Uri)
    /\ step.fires = 1

\* C15: a call for D that misses the cache sends its own request even when
\* requests for D are already pending, one request for each call that missed; a
\* call that hits sends none.
C15_NoDeduplication ==
    [][(Provided /\ editor # NoEditor)
        => IF MapHas(documents, editor)
           THEN requests' = requests
           ELSE /\ Cardinality(Sent) = 1
                /\ requests \subseteq requests'
                /\ Cardinality(requests') = Cardinality(requests) + 1
                /\ \A q \in Sent : q.uri = editor /\ q.id \notin Ids]_vars

C15_Witness ==
    /\ step.op = "provide" /\ step.outcome = "pending"
    /\ \E q1, q2 \in requests : q1 # q2 /\ q1.uri = editor /\ q2.uri = editor
    /\ ~MapHas(documents, editor)

\* C16: the cache changes only when a request completes successfully, which
\* sets the entry of the document the request was sent for, when a change or
\* close event deletes the entry of its own document, or when dispose clears
\* it; every other step leaves the cache as it was.
C16_OnlyThreeMutators ==
    [][documents' # documents
        => \/ /\ Settles("content")
              /\ \E r \in Settled :
                    /\ documents' = MapSet(documents, r.uri,
                                           SyntaxTreeDocument(r.view, step'.value))
                    /\ step'.value.doc = r.uri
                    /\ effects' = <<MapSetCall(documents, r.uri)>>
           \/ \E d \in Docs :
                 /\ onDidChangeTextDocument(d) \/ onDidCloseTextDocument(d)
                 /\ documents' = MapDelete(documents, d)
           \/ /\ dispose
              /\ documents' = MapClear(documents)]_vars

C16_Witness ==
    /\ step.op = "links" /\ step.outcome = "empty"
    /\ DOMAIN documents # {}
    /\ requests # {}

\* C17: a pending request keeps the document it was sent for whatever happens
\* to the active editor; when it completes successfully while another document
\* (or none) is active, the result is stored under the request's document, the
\* entry of the active document is left as it was, and the call resolves with
\* the text of the request's document.
C17_KeyFixedAtIssue ==
    [][/\ \A r \in requests : \A q \in requests' : q.id = r.id => q = r
       /\ \A r \in requests : \A old \in BOOLEAN :
             (FetchSuccess(r, old) /\ editor # r.uri)
             => /\ effects' = <<MapSetCall(documents, r.uri)>>
                /\ documents'[r.uri] = SyntaxTreeDocument(r.view, Tree(r.uri, old))
                /\ \A d \in Docs \ {r.uri} : SameEntry(d)
                /\ step'.value.doc = r.uri
                /\ editor' = editor]_vars

C17_Witness ==
    /\ step.op = "settle" /\ step.outcome = "content"
    /\ editor \in Docs /\ editor # step.value.doc
    /\ ~MapHas(documents, editor)
    /\ effects = <<[call |-> "set", key |-> step.value.doc, had |-> FALSE]>>

\* C18: a request that completes successfully sets the entry of its document to
\* its own result, whether or not an entry was there and whichever request was
\* sent first, so after two completions for one document the entry is the
\* result of the later completion.
C18_LastCompletionWins ==
    [][\A r \in requests : \A old \in BOOLEAN :
          FetchSuccess(r, old)
          => /\ documents'[r.uri] = SyntaxTreeDocument(r.view, Tree(r.uri, old))
             /\ effects' = <<[call |-> "set", key |-> r.uri,
                              had |-> MapHas(documents, r.uri)]>>
             /\ DOMAIN documents' = DOMAIN documents \cup {r.uri}]_vars

C18_Witness ==
    /\ step.op = "settle" /\ step.outcome = "content"
    /\ Len(effects) = 1 /\ effects[1].call = "set" /\ effects[1].had
    /\ step.value.outdated
    /\ documents[step.value.doc].value = step.value

\* C19: no step of provideTextDocumentContent, neither the call nor the
\* settlement of its request, fires the notifier; a step that fires is a step
\* of the change, close or active-editor handler or of the syntaxTree command,
\* and fires once, with the uri of the view.
C19_ProvideNeverFires ==
    [][/\ (Provided \/ Settled # {} \/ Sent # {})
          => /\ step'.fires = 0
             /\ \A i \in 1..Len(effects') : effects'[i].call # "fire"
       /\ (step'.fires > 0 \/ \E i \in 1..Len(effects') : effects'[i].call = "fire")
          => /\ \/ \E d \in Docs : onDidChangeTextDocument(d) \/ onDidCloseTextDocument(d)
                \/ \E e \in Docs : onDidChangeActiveTextEditor(e, TRUE)
                \/ syntaxTree
             /\ step'.fires = 1
             /\ requests' = requests]_vars

C19_Witness ==
    /\ step.op = "settle" /\ step.outcome = "failed"
    /\ step.fires = 0 /\ effects = <<>>
    /\ DOMAIN documents = {}

\* C20: with a server that settles every request, every call settles: a call
\* without an active document or with a cached one returns in its own step and
\* leaves nothing pending, a call that missed leaves exactly its own request
\* pending, that request is eventually settled, and the step that removes it is
\* the settlement of the call with the outcome of the request.
C20_EveryCallSettles ==
    /\ \A i \in 1..MaxPending :
          (i \in Ids) ~> (i \notin Ids /\ step.op = "settle"
                          /\ step.outcome \in {"content", "cancelled", "failed"})
    /\ [][/\ Provided => /\ step'.outcome \in {"absent", "content", "pending"}
                         /\ step'.outcome = "absent" <=> editor = NoEditor
                         /\ step'.outcome = "content" <=> (editor # NoEditor /\ MapHas(documents, editor))
                         /\ step'.outcome # "pending" => requests' = requests
                         /\ step'.outcome = "pending" => Cardinality(Sent) = 1 /\ Settled = {}
          /\ Settled # {}
             => /\ Cardinality(Settled) = 1
                /\ Sent = {}
                /\ step'.op = "settle"
                /\ \A r \in Settled :
                      \/ step'.outcome = "content" /\ \E old \in BOOLEAN : FetchSuccess(r, old)
                      \/ step'.outcome = "cancelled" /\ FetchCancelled(r)
                      \/ step'.outcome = "failed" /\ FetchFailed(r)]_vars

C20_Witness ==
    /\ step.op = "settle" /\ step.outcome = "content"
    /\ requests = {}
    /\ DOMAIN documents = Docs

====
